---------------------------- MODULE Spec2Model ----------------------------
(***************************************************************************)
(* A model of the ReguLink pipeline: the Harvester (agent_1_harvester.py), *)
(* the Refiner (agent_2_refiner.py) and the Analyst (agent_3_analyst.py).  *)
(* Each stage is a sequential batch job; stages hand work over through the *)
(* registry file, the Content Store (data/processed) and the              *)
(* Classification Store (data/intelligence).  One stage runs at a time.    *)
(*                                                                         *)
(* Text is modelled as TLA+ strings, and the string operations of the code *)
(* (lower(), substring tests, slices, the success regular expression,      *)
(* urlparse) are computed character by character.  The network, the        *)
(* browser and the classification engine are the environment: each call    *)
(* draws its outcome from a small menu.                                    *)
(***************************************************************************)
EXTENDS Integers, Sequences, FiniteSets, TLC

(***************************************************************************)
(* Bounds of the model.                                                    *)
(***************************************************************************)
\* Stage runs (Harvester, Refiner or Analyst processes) started in a behaviour.
MaxRuns == 4

(***************************************************************************)
(* Strings.                                                                *)
(***************************************************************************)
Min(a, b) == IF a < b THEN a ELSE b

CharAt(s, i) == SubSeq(s, i, i)

\* s[:n]
Take(s, n) == SubSeq(s, 1, Min(n, Len(s)))

\* s[n:] for a 0-based offset n
Drop(s, n) == SubSeq(s, n + 1, Len(s))

UpperAlpha == "ABCDEFGHIJKLMNOPQRSTUVWXYZ"
LowerAlpha == "abcdefghijklmnopqrstuvwxyz"
Digits == "0123456789"

CharsOf(s) == {CharAt(s, i) : i \in 1..Len(s)}

UpperSet == CharsOf(UpperAlpha)

LowerMap ==
    [c \in UpperSet |->
        CharAt(LowerAlpha, CHOOSE i \in 1..Len(UpperAlpha) : CharAt(UpperAlpha, i) = c)]

LowerChar(c) == IF c \in UpperSet THEN LowerMap[c] ELSE c

\* str.lower()
RECURSIVE Lower(_)
Lower(s) ==
    IF Len(s) = 0 THEN ""
    ELSE IF Len(s) = 1 THEN LowerChar(s)
    ELSE Lower(SubSeq(s, 1, Len(s) \div 2)) \o Lower(SubSeq(s, Len(s) \div 2 + 1, Len(s)))

\* sub in s
Contains(sub, s) ==
    \E i \in 1..(Len(s) - Len(sub) + 1) : SubSeq(s, i, i + Len(sub) - 1) = sub

\* A text of n filler characters.
RECURSIVE Filler(_)
Filler(n) ==
    IF n = 0 THEN ""
    ELSE IF n = 1 THEN "."
    ELSE Filler(n \div 2) \o Filler(n - (n \div 2))

\* The regular expression class \w (ASCII letters, digits, underscore).
WordChars == CharsOf(UpperAlpha) \cup CharsOf(LowerAlpha) \cup CharsOf(Digits) \cup {"_"}

IsWordChar(c) == c \in WordChars

\* The regular expression assertion \b between positions i and i+1 of s
\* (i = 0 is the start of s, i = Len(s) its end).
WordBoundary(s, i) ==
    LET before == i >= 1 /\ IsWordChar(CharAt(s, i))
        after  == i < Len(s) /\ IsWordChar(CharAt(s, i + 1))
    IN  before # after

\* pandas reads an empty cell as NaN, and str(NaN) is "nan".  The empty string
\* stands for the empty cell.
EmptyCell == ""

Str(v) == IF v = EmptyCell THEN "nan" ELSE v


(***************************************************************************)
(* Exceptions.  A call returns a value or raises an exception of a class;  *)
(* str(e) is the message.                                                  *)
(***************************************************************************)
Return(v) == [raised |-> FALSE, exc |-> "", value |-> v]

Raise(cls, msg) == [raised |-> TRUE, exc |-> cls, value |-> msg]

\* The exception classes that occur, each with its base class.
BaseClass ==
    [c \in {"ValueError", "RetryError", "Error", "HTTPError", "JSONDecodeError",
            "UnicodeDecodeError", "APIError", "Exception"} |->
        IF c \in {"JSONDecodeError", "UnicodeDecodeError"} THEN "ValueError"
        ELSE "Exception"]

\* isinstance(e, cls)
IsInstance(exc, cls) ==
    \/ exc = cls
    \/ BaseClass[exc] = cls
    \/ BaseClass[BaseClass[exc]] = cls

\* tenacity's @retry(stop=stop_after_attempt(n)) around Call.  The outcomes
\* the environment gives the attempts of one retried call: another attempt is
\* made only after one that raised, and at most n are made.
AttemptRuns(Outcomes, Call(_), n) ==
    {outs \in UNION {[1..m -> Outcomes] : m \in 1..n} :
        /\ \A k \in 1..(Len(outs) - 1) : Call(outs[k]).raised
        /\ Len(outs) = n \/ ~Call(outs[Len(outs)]).raised}

\* The result of the retried call: what the last attempt returned, or
\* RetryError when the last of the n attempts raised (reraise is not set).
Retry(outs, Call(_)) ==
    LET last == Call(outs[Len(outs)])
    IN  IF last.raised
        THEN Raise("RetryError",
                   "RetryError[<Future at 0x7f1 state=finished raised " \o last.exc \o ">]")
        ELSE last

(***************************************************************************)
(* The source registry (EU_Regulatory_Sources_Master.xlsx).                *)
(***************************************************************************)
\* The Harvester saves the registry after each row whose index is a multiple
\* of CHECKPOINT_EVERY.
CHECKPOINT_EVERY == 5

UrlFeed == "http://a.eu/rss"
UrlPage == "http://b.eu"
UrlNoScheme == "c.eu/news"

\* The registries of the model, each a sequence of (Target URL, Extraction
\* Strategy, Notes) cells as the operator's spreadsheet holds them before the
\* first run: two sources with a feed and a page to scrape; one URL listed
\* twice, as a feed and as a page; and the rows the Harvester does not fetch
\* (an api row, a row with no URL, a row whose strategy is not known and
\* whose URL has no scheme, with a note typed by hand); and a registry of
\* LongRegistryRows api sources, of which the one at index 5 has no URL yet.
LongRegistryRows == 8

LongRegistry ==
    [i \in 1..LongRegistryRows |->
        IF i - 1 = CHECKPOINT_EVERY THEN <<EmptyCell, "API", EmptyCell>>
        ELSE <<UrlPage, "API", EmptyCell>>]

RegistryMenu ==
    { << <<UrlFeed, "RSS", EmptyCell>>, <<UrlPage, "Web Scrape", EmptyCell>> >>,
      << <<UrlFeed, "RSS", EmptyCell>>, <<UrlFeed, "scrape", EmptyCell>> >>,
      << <<UrlPage, "api", EmptyCell>>, <<EmptyCell, "rss", EmptyCell>>,
         <<UrlNoScheme, "success", "Not Success">>, <<UrlFeed, "success", EmptyCell>> >>,
      LongRegistry }

SourceName(i) == "Source" \o ToString(i)

MakeRow(i, cells) ==
    [name |-> SourceName(i), url |-> cells[1], strategy |-> cells[2], notes |-> cells[3]]

Registries == {[i \in 1..Len(m) |-> MakeRow(i, m[i])] : m \in RegistryMenu}

\* The cells of the registries' columns.
Urls == UNION {{m[i][1] : i \in 1..Len(m)} : m \in RegistryMenu}

Strategies == UNION {{m[i][2] : i \in 1..Len(m)} : m \in RegistryMenu}

TypedNotes == UNION {{m[i][3] : i \in 1..Len(m)} : m \in RegistryMenu}

\* str(row.get('Extraction Strategy', '')).lower(), per cell.
StrategyOf == [c \in Strategies |-> Lower(Str(c))]

\* datetime.now(), rendered: the clock is the number of stage runs started.
Timestamp(now) == "2026-01-0" \o ToString(now)

(***************************************************************************)
(* The environment of the Harvester: what a feed fetch or a page load      *)
(* gives on one attempt.                                                   *)
(***************************************************************************)
TitleText == "MiCA: ESMA publishes final report on crypto-asset rules"

FeedOutcomes ==
    { [entries |-> <<TitleText>>, status |-> 200],
      [entries |-> <<TitleText>>, status |-> 404],
      [entries |-> <<>>, status |-> 200],
      [entries |-> <<>>, status |-> 403],
      [entries |-> <<>>] }

PageOutcomes ==
    { [response |-> TRUE, timeout |-> FALSE, title |-> TitleText],
      [response |-> TRUE, timeout |-> FALSE, title |-> ""],
      [response |-> FALSE, timeout |-> FALSE, title |-> ""],
      [response |-> TRUE, timeout |-> TRUE, title |-> ""] }

RSS_ATTEMPTS == 2
SCRAPE_ATTEMPTS == 2
HTTP_ERROR == 400
TITLE_CHARS == 50
ERROR_CHARS == 100

(***************************************************************************)
(* State.                                                                  *)
(***************************************************************************)
VARIABLES
    registry,       \* the registry file: a sequence of rows
    df,             \* the running stage's DataFrame of the registry
    processed,      \* the Content Store: content address -> file
    intelligence,   \* the Classification Store: content address -> file
    report,         \* the report file (intelligence_report.csv)
    stage,          \* the stage that is running, or "idle"
    idx,            \* the running stage's position in its loop (1-based)
    exit,           \* how the latest run ended
    runs,           \* stage runs started so far: the clock
    agent,          \* HarvesterAgent's browser, playwright and context fields
    sessions,       \* the browser processes that are open
    files,          \* the Analyst's list of RawDocument files
    results,        \* the Analyst's list of records for the report
    ENGINE,         \* the Analyst's classification engine
    fetched,        \* rows for which the running Harvester run made a fetch attempt
    attempts,       \* what the network gave the attempts of the Harvester's latest dispatch
    rssTried,       \* rows that had an rss dispatch
    rssHadEntries,  \* rows one of whose rss attempts found entries
    selected,       \* rows the running Refiner run selected
    fetchLog,       \* per URL, the download attempts of the latest Refiner run
    transportErrors,\* URLs one of whose download attempts raised in the running Refiner run
    engineLog,      \* content addresses the running Analyst run passed to the engine
    keys,           \* the API keys in the environment of the running Analyst process
    engineCalls,    \* the analysis functions the running Analyst run has called
    answered,       \* what the engine answered in the Analyst's latest iteration, if it did
    engineFailed,   \* per content address, the attempts of the latest engine call that
                    \* failed on every one of them, in any Analyst run (0: none)
    rendered,       \* what the dashboard rendered, when it was opened after the latest run
    previous        \* the stage of the run before, when that run returned from
                    \* run(); "none" when it was killed or raised, or there is none

vars ==
    <<registry, df, processed, intelligence, report, stage, idx, exit, runs, agent,
      sessions, files, results, ENGINE, fetched, attempts, rssTried, rssHadEntries, selected,
      fetchLog, transportErrors, engineLog, keys, engineCalls, answered, engineFailed, rendered, previous>>

\* The files the stages write, what a Harvester, a Refiner and an Analyst
\* process hold in memory, and the record of earlier runs.
storeVars == <<processed, intelligence, report>>
refinerLocal == <<selected, fetchLog, transportErrors>>
analystLocal == <<files, results, ENGINE, engineLog, keys, engineCalls, answered>>
history == <<rssTried, rssHadEntries, previous>>

\* A file of a store: absent, a complete JSON document, or what a kill in the
\* middle of the write leaves: the document cut short between two characters,
\* or cut within a multi-byte character (json.dump runs with
\* ensure_ascii=False, so the file holds UTF-8 sequences of several bytes).
NoFile == [kind |-> "none"]
PartialFile == [kind |-> "partial"]
TornFile == [kind |-> "torn"]
JsonFile(d) == [kind |-> "json", data |-> d]

(***************************************************************************)
(* The Harvester (agent_1_harvester.py).                                   *)
(***************************************************************************)
\* A faulty variant of _fetch_rss: it does not test for an empty feed.
FetchRss_NoEmptyCheck(feed) ==
    Return(IF feed.entries = <<>> THEN "" ELSE feed.entries[1])

\* A faulty variant of _fetch_rss: it tests the HTTP status before the entries.
FetchRss_StatusFirst(feed) ==
    IF "status" \in DOMAIN feed /\ feed.status >= HTTP_ERROR
    THEN Raise("ValueError", "HTTP " \o ToString(feed.status) \o " Error fetching RSS")
    ELSE IF feed.entries = <<>>
    THEN Raise("ValueError", "RSS parsed but found no entries (Empty Feed).")
    ELSE Return(feed.entries[1])

\* _fetch_rss, one attempt, on the feed feedparser.parse returned.
FetchRss(feed) ==
    IF feed.entries = <<>>
    THEN IF "status" \in DOMAIN feed /\ feed.status >= HTTP_ERROR
         THEN Raise("ValueError", "HTTP " \o ToString(feed.status) \o " Error fetching RSS")
         ELSE Raise("ValueError", "RSS parsed but found no entries (Empty Feed).")
    ELSE Return(feed.entries[1])

\* _scrape_web, one attempt, on what the page load gave.
ScrapeWeb(page) ==
    IF page.timeout THEN Raise("ValueError", "Page load timed out.")
    ELSE IF ~page.response THEN Raise("ValueError", "No response received from server.")
    ELSE IF page.title = "" THEN Raise("ValueError", "Page loaded but title was empty.")
    ELSE Return(page.title)

\* start_browser: launch is whether chromium.launch succeeds.
StartBrowser(a, launch) ==
    IF a.browser THEN a
    ELSE IF launch THEN [browser |-> TRUE, playwright |-> TRUE, context |-> TRUE]
    ELSE [a EXCEPT !.playwright = TRUE]

\* The except clause of the row loop: except Exception.
HarvestRowCatches(exc) == IsInstance(exc, "Exception")

\* A faulty variant of the dispatch: it has no branch for api.
Dispatch_NoApiBranch(strategy, url, feeds, pages) ==
    LET call ==
            IF Contains("rss", strategy) THEN Retry(feeds, FetchRss)
            ELSE IF Contains("scrape", strategy) THEN Retry(pages, ScrapeWeb)
            ELSE Return("")
        calls == IF Contains("rss", strategy) THEN Len(feeds)
                 ELSE IF Contains("scrape", strategy) THEN Len(pages)
                 ELSE 0
    IN  IF call.raised
        THEN [raised |-> FALSE, status |-> "Failed",
              note |-> "Error: " \o Take(call.value, ERROR_CHARS), calls |-> calls]
        ELSE IF Contains("rss", strategy)
        THEN [raised |-> FALSE, status |-> "Success",
              note |-> "RSS OK: " \o Take(call.value, TITLE_CHARS) \o "...", calls |-> calls]
        ELSE IF Contains("scrape", strategy)
        THEN [raised |-> FALSE, status |-> "Success",
              note |-> "Scrape OK: " \o Take(call.value, TITLE_CHARS) \o "...",
              calls |-> calls]
        ELSE [raised |-> FALSE, status |-> "Unknown Strategy",
              note |-> "Strategy '" \o strategy \o "' not recognized.", calls |-> calls]

\* The strategy dispatch of one row: the (status, note) pair, or the exception
\* that leaves the loop; calls: the attempts of _fetch_rss or _scrape_web made.
Dispatch(strategy, url, feeds, pages) ==
    LET call ==
            IF Contains("rss", strategy) THEN Retry(feeds, FetchRss)
            ELSE IF Contains("scrape", strategy) THEN Retry(pages, ScrapeWeb)
            ELSE Return("")
        calls == IF Contains("rss", strategy) THEN Len(feeds)
                 ELSE IF Contains("scrape", strategy) THEN Len(pages)
                 ELSE 0
    IN  IF call.raised
        THEN IF HarvestRowCatches(call.exc)
             THEN [raised |-> FALSE, status |-> "Failed",
                   note |-> "Error: " \o Take(call.value, ERROR_CHARS), calls |-> calls]
             ELSE [raised |-> TRUE, status |-> "Pending", note |-> "", calls |-> calls]
        ELSE IF Contains("rss", strategy)
        THEN [raised |-> FALSE, status |-> "Success",
              note |-> "RSS OK: " \o Take(call.value, TITLE_CHARS) \o "...", calls |-> calls]
        ELSE IF Contains("scrape", strategy)
        THEN [raised |-> FALSE, status |-> "Success",
              note |-> "Scrape OK: " \o Take(call.value, TITLE_CHARS) \o "...",
              calls |-> calls]
        ELSE IF Contains("api", strategy)
        THEN [raised |-> FALSE, status |-> "Skipped", note |-> "API connector not built yet.",
              calls |-> calls]
        ELSE [raised |-> FALSE, status |-> "Unknown Strategy",
              note |-> "Strategy '" \o strategy \o "' not recognized.", calls |-> calls]

\* The Notes cell written for a row.
NotesCell(now, status, note) == "[" \o Timestamp(now) \o "] " \o status \o " - " \o note

\* df['Extraction Strategy'].astype(str).str.contains('scrape', case=False).any()
NeedsBrowser(d) == \E i \in 1..Len(d) : Contains("scrape", StrategyOf[d[i].strategy])

NoAgent == [browser |-> FALSE, playwright |-> FALSE, context |-> FALSE]
NoSessions == [driver |-> FALSE, chromium |-> FALSE]

\* run(), up to the row loop: load the registry and start the browser when a
\* row asks for scraping.  A failed launch raises out of run(), before the
\* try statement.
HarvesterStart ==
    /\ stage = "idle"
    /\ runs < MaxRuns
    /\ \E launch \in BOOLEAN :
        LET started == IF NeedsBrowser(registry) THEN StartBrowser(NoAgent, launch)
                       ELSE NoAgent
            failed == NeedsBrowser(registry) /\ ~launch
        IN  /\ sessions' = [driver |-> started.playwright, chromium |-> started.browser]
            /\ agent' = IF failed THEN NoAgent ELSE started
            /\ df' = IF failed THEN <<>> ELSE registry
            /\ stage' = IF failed THEN "idle" ELSE "harvester"
            /\ exit' = IF failed THEN "raised_start" ELSE "running"
            /\ previous' = IF failed THEN "none" ELSE previous
    /\ runs' = runs + 1
    /\ rendered' = "closed"
    /\ UNCHANGED <<engineFailed, registry, storeVars, idx, fetched, attempts, rssTried, rssHadEntries,
                   refinerLocal, analystLocal>>

\* The attempts the network can give a retried _fetch_rss, _scrape_web.
FeedRuns == {outs : outs \in AttemptRuns(FeedOutcomes, FetchRss, RSS_ATTEMPTS)}

PageRuns == {outs : outs \in AttemptRuns(PageOutcomes, ScrapeWeb, SCRAPE_ATTEMPTS)}

\* What is kept of the attempts of a dispatch: of the feeds before the last
\* their entries, the last feed whole, and the number of page loads.
NoAttempts == [feeds |-> <<>>, pages |-> 0]

AttemptsOf(env) ==
    [feeds |-> [k \in 1..Len(env.feeds) |->
                   IF k < Len(env.feeds) THEN [entries |-> env.feeds[k].entries]
                   ELSE env.feeds[k]],
     pages |-> Len(env.pages)]

\* What the network gives the attempts of one row's dispatch: feeds for an rss
\* row, page loads for a scrape row (the other strategies make no call).
RowEnvironments(strategy) ==
    IF Contains("rss", strategy) THEN {[feeds |-> f, pages |-> <<>>] : f \in FeedRuns}
    ELSE IF Contains("scrape", strategy) THEN {[feeds |-> <<>>, pages |-> p] : p \in PageRuns}
    ELSE {[feeds |-> <<>>, pages |-> <<>>]}

\* The Notes cells a registry can hold: those typed by hand, and those a
\* Harvester run writes.
DispatchResults ==
    UNION {{Dispatch(StrategyOf[c], "", env.feeds, env.pages) :
                env \in RowEnvironments(StrategyOf[c])} : c \in Strategies}

WrittenNotes ==
    {NotesCell(now, out.status, out.note) :
        now \in 1..MaxRuns, out \in {o \in DispatchResults : ~o.raised}}

Notes == TypedNotes \cup WrittenNotes

\* Whether the row's dispatch reaches _scrape_web with no context set.
RestartsBrowser(row, a) ==
    /\ row.url # EmptyCell
    /\ ~Contains("rss", StrategyOf[row.strategy])
    /\ Contains("scrape", StrategyOf[row.strategy])
    /\ ~a.context

\* One iteration of the row loop.
HarvestRow ==
    /\ stage = "harvester"
    /\ exit = "running"
    /\ idx <= Len(df)
    /\ LET row == df[idx]
           index == idx - 1
           url == row.url
       IN  IF url = EmptyCell
           THEN /\ idx' = idx + 1
                /\ attempts' = NoAttempts
                /\ UNCHANGED <<registry, df, exit, fetched, rssTried, rssHadEntries>>
           ELSE \E strategy \in {StrategyOf[row.strategy]} :
                \E env \in RowEnvironments(strategy) :
                \E out \in {Dispatch(strategy, url, env.feeds, env.pages)} :
                LET feeds == env.feeds
                    isRss == Contains("rss", strategy)
                    newDf == [df EXCEPT ![idx].notes = NotesCell(runs, out.status, out.note)]
                IN  /\ fetched' = IF out.calls > 0 THEN fetched \cup {idx} ELSE fetched
                    /\ attempts' = AttemptsOf(env)
                    /\ rssTried' = IF isRss THEN rssTried \cup {idx} ELSE rssTried
                    /\ rssHadEntries' =
                          IF isRss /\ \E k \in 1..Len(feeds) : feeds[k].entries # <<>>
                          THEN rssHadEntries \cup {idx} ELSE rssHadEntries
                    /\ IF out.raised
                       THEN \* the exception leaves the loop; finally runs next
                            /\ exit' = "raised_row"
                            /\ UNCHANGED <<registry, df, idx>>
                       ELSE /\ df' = newDf
                            /\ registry' = IF index % CHECKPOINT_EVERY = 0 THEN newDf
                                           ELSE registry
                            /\ idx' = idx + 1
                            /\ exit' = exit
    \* _scrape_web restarts the browser when the context is not set
    /\ agent' = IF RestartsBrowser(df[idx], agent) THEN StartBrowser(agent, TRUE) ELSE agent
    /\ sessions' = [driver |-> agent'.playwright, chromium |-> agent'.browser]
    /\ UNCHANGED <<rendered, engineFailed, storeVars, stage, runs, previous, refinerLocal, analystLocal>>

\* stop_browser: close is whether browser.close() returns.
StopBrowser(a, close) ==
    IF a.browser /\ close THEN [a EXCEPT !.browser = FALSE, !.playwright = FALSE]
    ELSE a

\* The finally clause of run(): stop_browser(), then save_data(df).  When
\* browser.close() raises, the exception leaves finally before save_data.
\* The process ends.
HarvesterFinish ==
    /\ stage = "harvester"
    /\ (idx > Len(df) \/ exit = "raised_row")
    /\ \E close \in BOOLEAN :
        LET closeRaised == agent.browser /\ ~close
            stopped == StopBrowser(agent, close)
        IN  /\ sessions' = [driver |-> stopped.playwright, chromium |-> stopped.browser]
            /\ registry' = IF closeRaised THEN registry ELSE df
            /\ exit' = IF closeRaised THEN "raised_finish"
                       ELSE IF exit = "raised_row" THEN exit ELSE "returned"
            /\ previous' = IF closeRaised \/ exit = "raised_row" THEN "none"
                           ELSE "harvester"
    /\ stage' = "idle"
    /\ agent' = NoAgent
    /\ df' = <<>>
    /\ idx' = 1
    /\ fetched' = {}
    /\ attempts' = NoAttempts
    /\ UNCHANGED <<rendered, engineFailed, storeVars, runs, rssTried, rssHadEntries, refinerLocal, analystLocal>>

(***************************************************************************)
(* The Refiner (agent_2_refiner.py).                                       *)
(***************************************************************************)
SuccessTokens == {"success", "rss ok", "scrape ok"}

\* re.search(r"\b(success|rss ok|scrape ok)\b", status, re.IGNORECASE)
MatchesSuccess(status) ==
    \E low \in {Lower(status)} :
        \E t \in SuccessTokens :
            \E i \in 1..(Len(status) - Len(t) + 1) :
                /\ SubSeq(low, i, i + Len(t) - 1) = t
                /\ WordBoundary(status, i - 1)
                /\ WordBoundary(status, i + Len(t) - 1)

\* The selection test of run(): str(row.get('Notes', '')) matched against the
\* pattern, per Notes cell.
Selects == [n \in Notes |-> MatchesSuccess(Str(n))]

Letters == CharsOf(UpperAlpha) \cup CharsOf(LowerAlpha)

SchemeChars == Letters \cup CharsOf(Digits) \cup {"+", "-", "."}

\* urlparse(url).scheme: the text before the first colon, when it starts with a
\* letter and holds scheme characters only.
UrlScheme(url) ==
    LET colons == {i \in 1..Len(url) : CharAt(url, i) = ":"}
    IN  IF colons = {} THEN ""
        ELSE LET i == CHOOSE c \in colons : \A d \in colons : c <= d
                 pre == SubSeq(url, 1, i - 1)
             IN  IF /\ i > 1
                    /\ CharAt(pre, 1) \in Letters
                    /\ \A k \in 1..Len(pre) : CharAt(pre, k) \in SchemeChars
                 THEN Lower(pre) ELSE ""

\* urlparse(url).netloc: what follows "//" after the scheme, up to the next
\* "/", "?" or "#".
UrlNetloc(url) ==
    LET rest == IF UrlScheme(url) = "" THEN url ELSE Drop(url, Len(UrlScheme(url)) + 1)
    IN  IF Take(rest, 2) # "//" THEN ""
        ELSE LET body == Drop(rest, 2)
                 stops == {i \in 1..Len(body) : CharAt(body, i) \in {"/", "?", "#"}}
             IN  IF stops = {} THEN body
                 ELSE SubSeq(body, 1, (CHOOSE c \in stops : \A d \in stops : c <= d) - 1)

\* is_valid_url
IsValidUrl(url) == UrlScheme(Str(url)) # "" /\ UrlNetloc(Str(url)) # ""

\* get_url_hash: hashlib.md5(url).hexdigest().  MD5 is replaced by a 16-bit
\* polynomial digest of the URL's characters; it has no collision on the URLs
\* of RegistryMenu.
HashAlphabet == LowerAlpha \o UpperAlpha \o Digits \o ":/.-_?#"

CharCodes ==
    [c \in CharsOf(HashAlphabet) |->
        CHOOSE i \in 1..Len(HashAlphabet) : CharAt(HashAlphabet, i) = c]

CharCode(c) == IF c \in DOMAIN CharCodes THEN CharCodes[c] ELSE 0

RECURSIVE Digest(_)
Digest(s) ==
    IF Len(s) = 0 THEN 7
    ELSE (Digest(SubSeq(s, 1, Len(s) - 1)) * 31 + CharCode(CharAt(s, Len(s)))) % 65536

GetUrlHash(url) == Digest(url)

\* is_valid_url and get_url_hash, per Target URL cell.
ValidUrl == [u \in Urls |-> IsValidUrl(u)]

UrlHash == [u \in Urls |-> GetUrlHash(u)]

\* The content addresses of the URLs a registry row can hold.
Addresses == {UrlHash[u] : u \in {v \in Urls : ValidUrl[v]}}

\* What a download can extract from a page.
TextClean == " Regulation (EU) 2023/1114 on markets in crypto-assets (MiCA)" \o Filler(60) \o " "
TextBlocked == "Access Denied. Please complete the Security Check" \o Filler(75)
TextMid == "Consultation on MiCA technical standards" \o Filler(20)
TextShort == "Page not found" \o Filler(26)

\* None, and the empty text: the code tests both with "not content".
None == ""

Texts == {TextClean, TextBlocked, TextMid, TextShort}

\* str.strip(), of spaces
Strip(s) ==
    LET solid == {i \in 1..Len(s) : CharAt(s, i) # " "}
    IN  IF solid = {} THEN ""
        ELSE SubSeq(s, CHOOSE i \in solid : \A j \in solid : i <= j,
                       CHOOSE i \in solid : \A j \in solid : i >= j)

\* Strip over the texts of the menu, computed once.
Stripped == [t \in Texts |-> Strip(t)]

\* One download: trafilatura.fetch_url gives the page or None; the fallback
\* requests.get gives the page or raises; text is what trafilatura.extract
\* finds in the page.
DownloadOutcomes ==
    {[fetched |-> TRUE, requests |-> "ok", text |-> t] : t \in Texts \cup {None}}
    \cup {[fetched |-> FALSE, requests |-> "ok", text |-> TextClean],
          [fetched |-> FALSE, requests |-> "raise", text |-> None]}

\* The download attempt ends in a transport error: trafilatura.fetch_url gave
\* None and requests.get, or raise_for_status, raised.
TransportError(out) == ~out.fetched /\ out.requests = "raise"

DOWNLOAD_ATTEMPTS == 2
MIN_CONTENT == 50

\* The except clause of _download_content: except Exception.
DownloadCatches(exc) == IsInstance(exc, "Exception")

\* _download_content, one attempt.
DownloadContent(out) ==
    LET body == IF TransportError(out)
                THEN Raise("HTTPError", "404 Client Error")
                ELSE IF out.text # None THEN Return(Stripped[out.text])
                ELSE Return(None)
    IN  IF body.raised /\ DownloadCatches(body.exc) THEN Return(None) ELSE body

\* The attempts the network can give a retried _download_content.
DownloadRuns == {outs : outs \in AttemptRuns(DownloadOutcomes, DownloadContent, DOWNLOAD_ATTEMPTS)}

\* Faulty variants of the idempotency check: one that takes only a complete
\* document for a file that exists, one that finds no file.
AlreadyDownloaded_CompleteOnly(store, address) == store[address].kind = "json"

AlreadyDownloaded_Never(store, address) == FALSE

\* The idempotency check of process_url: os.path.exists(json_path).
AlreadyDownloaded(store, address) == store[address].kind # "none"

\* The except clause of process_url: except Exception.
ProcessUrlCatches(exc) == IsInstance(exc, "Exception")

\* The RawDocument process_url writes.
RawDocument(source, url, now, content) ==
    [source |-> source, url |-> url, downloaded_at |-> Timestamp(now),
     content_clean |-> content]

\* process_url: the Content Store it leaves, the download attempts it made and
\* whether it raised, given the outcomes of the download attempts.
ProcessUrl(store, url, source, now, outs) ==
    LET address == UrlHash[url]
        got == Retry(outs, DownloadContent)
        tried == Len(outs)
    IN  IF AlreadyDownloaded(store, address)
        THEN [store |-> store, tried |-> 0, raised |-> FALSE, failed |-> FALSE]
        ELSE IF got.raised
        THEN [store |-> store, tried |-> tried, raised |-> ~ProcessUrlCatches(got.exc),
              failed |-> TRUE]
        ELSE IF got.value = None \/ Len(got.value) < MIN_CONTENT
        THEN [store |-> store, tried |-> tried, raised |-> FALSE, failed |-> TRUE]
        ELSE [store |-> [store EXCEPT
                            ![address] = JsonFile(RawDocument(source, url, now, got.value))],
              tried |-> tried, raised |-> FALSE, failed |-> FALSE]

\* The network is asked only when process_url gets past its idempotency
\* check.
DownloadEnvironments(store, url) ==
    IF AlreadyDownloaded(store, UrlHash[url]) THEN {<<>>} ELSE DownloadRuns

NoFetches == [u \in Urls |-> 0]

\* run(), up to the row loop.
RefinerStart ==
    /\ stage = "idle"
    /\ runs < MaxRuns
    /\ runs' = runs + 1
    /\ stage' = "refiner"
    /\ exit' = "running"
    /\ df' = registry
    /\ rendered' = "closed"
    /\ UNCHANGED <<engineFailed, registry, storeVars, idx, agent, sessions, fetched, attempts, history, refinerLocal,
                   analystLocal>>

\* One iteration of the row loop.
RefineRow ==
    /\ stage = "refiner"
    /\ exit = "running"
    /\ idx <= Len(df)
    /\ LET row == df[idx]
           status == Str(row.notes)
       IN  IF Selects[row.notes]
           THEN /\ selected' = selected \cup {idx}
                /\ IF ValidUrl[row.url]
                   THEN \E outs \in DownloadEnvironments(processed, row.url) :
                        LET done == ProcessUrl(processed, row.url, row.name, runs, outs)
                        IN  /\ processed' = done.store
                            /\ fetchLog' = [fetchLog EXCEPT ![row.url] = @ + done.tried]
                            /\ transportErrors' =
                                  IF \E k \in 1..Len(outs) : TransportError(outs[k])
                                  THEN transportErrors \cup {row.url} ELSE transportErrors
                            /\ exit' = IF done.raised THEN "raised_row" ELSE exit
                            /\ idx' = IF done.raised THEN idx ELSE idx + 1
                   ELSE /\ idx' = idx + 1
                        /\ UNCHANGED <<processed, fetchLog, transportErrors, exit>>
           ELSE /\ idx' = idx + 1
                /\ UNCHANGED <<processed, fetchLog, transportErrors, exit, selected>>
    /\ UNCHANGED <<rendered, engineFailed, registry, df, intelligence, report, stage, runs, agent, sessions,
                   fetched, attempts, history, analystLocal>>

\* A faulty variant of the end of run(): it saves the registry with the notes
\* of the rows it selected cleared.
RefinerFinish_SavesRegistry ==
    /\ stage = "refiner"
    /\ (idx > Len(df) \/ exit = "raised_row")
    /\ registry' = [i \in 1..Len(df) |->
                        IF i \in selected THEN [df[i] EXCEPT !.notes = EmptyCell] ELSE df[i]]
    /\ stage' = "idle"
    /\ exit' = IF exit = "raised_row" THEN exit ELSE "returned"
    /\ previous' = IF exit = "raised_row" THEN "none" ELSE "refiner"
    /\ df' = <<>>
    /\ idx' = 1
    /\ selected' = {}
    /\ fetchLog' = NoFetches
    /\ transportErrors' = {}
    /\ UNCHANGED <<rendered, engineFailed, storeVars, runs, agent, sessions, fetched, attempts, rssTried, rssHadEntries, analystLocal>>

\* The end of run(), or of the process when an exception left the loop.
RefinerFinish ==
    /\ stage = "refiner"
    /\ (idx > Len(df) \/ exit = "raised_row")
    /\ stage' = "idle"
    /\ exit' = IF exit = "raised_row" THEN exit ELSE "returned"
    /\ previous' = IF exit = "raised_row" THEN "none" ELSE "refiner"
    /\ df' = <<>>
    /\ idx' = 1
    /\ selected' = {}
    /\ fetchLog' = NoFetches
    /\ transportErrors' = {}
    /\ UNCHANGED <<rendered, engineFailed, registry, storeVars, runs, agent, sessions, fetched, attempts, rssTried, rssHadEntries,
                   analystLocal>>

\* The Refiner process is killed in the iteration of row idx.  When that
\* iteration has reached the write of the RawDocument (lines 126-134), the
\* file may be left cut short.
KillRefiner ==
    /\ stage = "refiner"
    /\ exit = "running"
    /\ idx <= Len(df)
    /\ LET row == df[idx]
           writes == /\ Selects[row.notes]
                     /\ ValidUrl[row.url]
                     /\ \E outs \in DownloadRuns :
                            ProcessUrl(processed, row.url, row.name, runs, outs).store
                                # processed
       IN  \E reached \in {writes} :
           \E left \in IF reached THEN {NoFile, PartialFile, TornFile} ELSE {NoFile} :
               processed' = IF left = NoFile THEN processed
                            ELSE [processed EXCEPT ![UrlHash[row.url]] = left]
    /\ stage' = "idle"
    /\ exit' = "killed"
    /\ df' = <<>>
    /\ idx' = 1
    /\ selected' = {}
    /\ fetchLog' = NoFetches
    /\ transportErrors' = {}
    /\ previous' = "none"
    /\ UNCHANGED <<rendered, engineFailed, registry, intelligence, report, runs, agent, sessions, fetched, attempts, rssTried,
                   rssHadEntries, analystLocal>>

(***************************************************************************)
(* The Analyst (agent_3_analyst.py).                                       *)
(***************************************************************************)
\* os.getenv("GEMINI_API_KEY"), os.getenv("OPENAI_API_KEY")
API_KEYS == {"GEMINI_API_KEY", "OPENAI_API_KEY"}

\* The engine chosen when the module is loaded, from the API keys present.
SelectEngine(env) ==
    IF "GEMINI_API_KEY" \in env THEN "GEMINI"
    ELSE IF "OPENAI_API_KEY" \in env THEN "OPENAI"
    ELSE "MOCK"

BLOCK_PHRASES ==
    { "access denied", "security check", "challenge-response", "verify you are human",
      "cloudflare", "403 forbidden", "suspected bot activity", "enable javascript",
      "captcha", "unusual traffic", "access to this page has been denied", "vpn/proxy",
      "malicious activity detected", "malicious behavior detected" }

\* A faulty variant of filter 2: it compares without lower().
HasBlockPhrase_CaseSensitive(content) == \E phrase \in BLOCK_PHRASES : Contains(phrase, content)

\* any(phrase in content.lower() for phrase in BLOCK_PHRASES)
HasBlockPhrase(content) == \E phrase \in BLOCK_PHRASES : Contains(phrase, Lower(content))

\* The texts a RawDocument can hold, and the block scan of each, computed once.
StoredTexts == {Stripped[t] : t \in Texts}

BlockScan == [c \in StoredTexts |-> HasBlockPhrase(c)]

MIN_ANALYSIS_CONTENT == 100
ENGINE_ATTEMPTS == 3

\* open(path, 'r', encoding='utf-8') and json.load of the file: reading a
\* file cut within a multi-byte character raises UnicodeDecodeError, parsing
\* one cut between characters raises JSONDecodeError.
JsonLoad(file) ==
    IF file.kind = "json" THEN Return(file.data)
    ELSE IF file.kind = "torn"
    THEN Raise("UnicodeDecodeError",
               "'utf-8' codec can't decode byte 0xc3 in position 8191: unexpected end of data")
    ELSE Raise("JSONDecodeError", "Expecting value: line 1 column 1 (char 0)")

\* The except clauses of the loop: json.JSONDecodeError around the load of the
\* record and of the RawDocument, Exception around the analysis.
OutputLoadCatches(exc) == IsInstance(exc, "JSONDecodeError")

InputLoadCatches(exc) == IsInstance(exc, "JSONDecodeError")

AnalysisCatches(exc) == IsInstance(exc, "Exception")

\* Faulty variants of the idempotency check, as for the Refiner.
AlreadyAnalysed_CompleteOnly(store, address) == store[address].kind = "json"

AlreadyAnalysed_Never(store, address) == FALSE

\* The idempotency check of the loop: os.path.exists(output_path).
AlreadyAnalysed(store, address) == store[address].kind # "none"

\* A faulty variant of filter 1: it rejects the empty text only.
TooShort_EmptyOnly(content) == content = ""

\* Filter 1: not content or len(content) < 100.
TooShort(content) == content = "" \/ Len(content) < MIN_ANALYSIS_CONTENT

\* Filter 2.
IsBlockPage(content) == BlockScan[content]

\* _mock_analysis
MockAnalysis(now) ==
    [summary |-> "Mock Summary: Regulatory update detected.", impact_score |-> 5,
     tags |-> <<"Mock_Tag">>, date |-> Timestamp(now)]

\* What json.loads gives of an engine's answer: an object with the four
\* fields, with an impact score of any size, or an object that lacks fields.
EngineAnswer(score) ==
    [summary |-> "ESMA publishes MiCA technical standards.", impact_score |-> score,
     tags |-> <<"MiCA">>, date |-> "2026-01-01"]

PartialAnswer == [summary |-> "ESMA publishes MiCA technical standards.", tags |-> <<"MiCA">>]

EngineResponses == {EngineAnswer(3), EngineAnswer(11), PartialAnswer}

\* One attempt of an engine call: the API answers, or raises.
EngineOutcomes ==
    {[error |-> FALSE, answer |-> r] : r \in EngineResponses}
    \cup {[error |-> TRUE, answer |-> EngineAnswer(0)]}

\* _analyze_with_gemini and _analyze_with_openai, one attempt.
AnalyzeWithGemini(out) ==
    IF out.error THEN Raise("APIError", "429 Resource exhausted") ELSE Return(out.answer)

AnalyzeWithOpenai(out) ==
    IF out.error THEN Raise("APIError", "429 Rate limit reached") ELSE Return(out.answer)

\* The attempts the API can give a retried engine call.
EngineRuns == {outs : outs \in AttemptRuns(EngineOutcomes, AnalyzeWithGemini, ENGINE_ATTEMPTS)}

\* A faulty variant of the engine dispatch: when the API engine fails it falls
\* back to _mock_analysis.
CallEngine_FallsBackToMock(engine, now, outs) ==
    LET api == IF engine = "GEMINI" THEN Retry(outs, AnalyzeWithGemini)
               ELSE Retry(outs, AnalyzeWithOpenai)
    IN  IF engine \in {"GEMINI", "OPENAI"} /\ ~api.raised THEN api @@ [by |-> {engine}]
        ELSE Return(MockAnalysis(now)) @@ [by |-> {engine, "MOCK"}]

\* The engine dispatch: the two API engines are retried, _mock_analysis does
\* not call out.  by: the analysis functions that were called.
CallEngine(engine, now, outs) ==
    IF engine = "GEMINI" THEN Retry(outs, AnalyzeWithGemini) @@ [by |-> {"GEMINI"}]
    ELSE IF engine = "OPENAI" THEN Retry(outs, AnalyzeWithOpenai) @@ [by |-> {"OPENAI"}]
    ELSE Return(MockAnalysis(now)) @@ [by |-> {"MOCK"}]

REQUIRED_KEYS == {"summary", "impact_score", "tags", "date"}

\* A faulty variant of the merge: it gives a record that lacks an impact score
\* the score 0.
FullReport_DefaultScore(data, analysis, now, engine) ==
    LET extra == [analyzed_at |-> Timestamp(now), engine |-> engine]
        filled == IF "impact_score" \in DOMAIN analysis THEN analysis
                  ELSE analysis @@ [impact_score |-> 0]
    IN  [k \in DOMAIN data \cup DOMAIN filled \cup DOMAIN extra |->
            IF k \in DOMAIN extra THEN extra[k]
            ELSE IF k \in DOMAIN filled THEN filled[k]
            ELSE data[k]]

\* {**data, **analysis, "analyzed_at": ..., "engine": ENGINE}
FullReport(data, analysis, now, engine) ==
    LET extra == [analyzed_at |-> Timestamp(now), engine |-> engine]
    IN  [k \in DOMAIN data \cup DOMAIN analysis \cup DOMAIN extra |->
            IF k \in DOMAIN extra THEN extra[k]
            ELSE IF k \in DOMAIN analysis THEN analysis[k]
            ELSE data[k]]

\* A faulty variant of the iteration: when the engine call fails it writes a
\* record that holds the error.
Analyse_RecordsFailure(input, output, address, engine, now, outs) ==
    LET skip == [output |-> output, append |-> <<>>, called |-> FALSE, by |-> {},
                 answer |-> {}, error |-> "", raised |-> FALSE]
        old == JsonLoad(output)
        data == JsonLoad(input)
        content == IF "content_clean" \in DOMAIN data.value THEN data.value.content_clean
                   ELSE ""
        analysis == CallEngine(engine, now, outs)
        full == FullReport(data.value, analysis.value, now, engine)
    IN  IF AlreadyAnalysed([a \in {address} |-> output], address)
        THEN IF old.raised
             THEN [skip EXCEPT !.error = "json", !.raised = ~OutputLoadCatches(old.exc)]
             ELSE [skip EXCEPT !.append = <<old.value>>]
        ELSE IF data.raised
        THEN [skip EXCEPT !.error = "json", !.raised = ~InputLoadCatches(data.exc)]
        ELSE IF TooShort(content) THEN skip
        ELSE IF IsBlockPage(content) THEN skip
        ELSE IF analysis.raised
        THEN [skip EXCEPT !.output = JsonFile(FullReport(data.value, [error |-> analysis.value],
                                                          now, engine)),
                          !.called = TRUE, !.by = analysis.by, !.error = "engine",
                          !.raised = ~AnalysisCatches(analysis.exc)]
        ELSE [output |-> JsonFile(full), append |-> <<full>>, called |-> TRUE,
              by |-> analysis.by, answer |-> {analysis.value}, error |-> "", raised |-> FALSE]

\* A faulty variant of the iteration: it drops an answer that lacks a required
\* field.
Analyse_RejectsPartial(input, output, address, engine, now, outs) ==
    LET skip == [output |-> output, append |-> <<>>, called |-> FALSE, by |-> {},
                 answer |-> {}, error |-> "", raised |-> FALSE]
        old == JsonLoad(output)
        data == JsonLoad(input)
        content == IF "content_clean" \in DOMAIN data.value THEN data.value.content_clean
                   ELSE ""
        analysis == CallEngine(engine, now, outs)
        full == FullReport(data.value, analysis.value, now, engine)
    IN  IF AlreadyAnalysed([a \in {address} |-> output], address)
        THEN IF old.raised
             THEN [skip EXCEPT !.error = "json", !.raised = ~OutputLoadCatches(old.exc)]
             ELSE [skip EXCEPT !.append = <<old.value>>]
        ELSE IF data.raised
        THEN [skip EXCEPT !.error = "json", !.raised = ~InputLoadCatches(data.exc)]
        ELSE IF TooShort(content) THEN skip
        ELSE IF IsBlockPage(content) THEN skip
        ELSE IF analysis.raised
        THEN [skip EXCEPT !.called = TRUE, !.by = analysis.by, !.error = "engine",
                          !.raised = ~AnalysisCatches(analysis.exc)]
        ELSE IF ~(REQUIRED_KEYS \subseteq DOMAIN analysis.value)
        THEN [skip EXCEPT !.called = TRUE, !.by = analysis.by, !.answer = {analysis.value},
                          !.error = "keys"]
        ELSE [output |-> JsonFile(full), append |-> <<full>>, called |-> TRUE,
              by |-> analysis.by, answer |-> {analysis.value}, error |-> "", raised |-> FALSE]

\* One iteration of the loop over files, for the RawDocument file `input` and
\* the record file `output` at one address: the record file it leaves, the
\* record it appends to results (none: <<>>), whether it called the engine
\* (and the analysis functions called), what the engine answered, the error
\* it met and whether an exception left the loop.
Analyse(input, output, address, engine, now, outs) ==
    LET skip == [output |-> output, append |-> <<>>, called |-> FALSE, by |-> {},
                 answer |-> {}, error |-> "", raised |-> FALSE]
        old == JsonLoad(output)
        data == JsonLoad(input)
        content == IF "content_clean" \in DOMAIN data.value THEN data.value.content_clean
                   ELSE ""
        analysis == CallEngine(engine, now, outs)
        full == FullReport(data.value, analysis.value, now, engine)
    IN  IF AlreadyAnalysed([a \in {address} |-> output], address)
        THEN IF old.raised
             THEN [skip EXCEPT !.error = "json", !.raised = ~OutputLoadCatches(old.exc)]
             ELSE [skip EXCEPT !.append = <<old.value>>]
        ELSE IF data.raised
        THEN [skip EXCEPT !.error = "json", !.raised = ~InputLoadCatches(data.exc)]
        ELSE IF TooShort(content) THEN skip
        ELSE IF IsBlockPage(content) THEN skip
        ELSE IF analysis.raised
        THEN [skip EXCEPT !.called = TRUE, !.by = analysis.by, !.error = "engine",
                          !.raised = ~AnalysisCatches(analysis.exc)]
        ELSE [output |-> JsonFile(full), append |-> <<full>>, called |-> TRUE,
              by |-> analysis.by, answer |-> {analysis.value}, error |-> "", raised |-> FALSE]

\* An API is asked only when the iteration reaches the engine call and the
\* engine is not the mock.
EngineEnvironments(input, output, address, engine) ==
    IF engine # "MOCK" /\ \E outs \in EngineRuns :
                             Analyse(input, output, address, engine, 0, outs).called
    THEN EngineRuns ELSE {<<>>}

HasScore(r) == "impact_score" \in DOMAIN r

\* A faulty variant of the sort: ascending.
InsertByScore_Ascending(rows, r) ==
    LET ahead == {i \in 1..Len(rows) : rows[i].impact_score <= r.impact_score}
        n == IF ahead = {} THEN 0 ELSE CHOOSE i \in ahead : \A j \in ahead : i >= j
    IN  SubSeq(rows, 1, n) \o <<r>> \o SubSeq(rows, n + 1, Len(rows))

\* r put into rows, which are sorted by impact score descending, behind the
\* rows whose score is at least r's.
InsertByScore(rows, r) ==
    LET ahead == {i \in 1..Len(rows) : rows[i].impact_score >= r.impact_score}
        n == IF ahead = {} THEN 0 ELSE CHOOSE i \in ahead : \A j \in ahead : i >= j
    IN  SubSeq(rows, 1, n) \o <<r>> \o SubSeq(rows, n + 1, Len(rows))

RECURSIVE SortScored(_)
SortScored(rows) ==
    IF rows = <<>> THEN <<>>
    ELSE InsertByScore(SortScored(SubSeq(rows, 1, Len(rows) - 1)), rows[Len(rows)])

\* df.sort_values(by='impact_score', ascending=False): the rows with a score by
\* score descending, then the rows without one.
SortValues(rows) ==
    SortScored(SelectSeq(rows, HasScore)) \o SelectSeq(rows, LAMBDA r : ~HasScore(r))

\* A faulty variant of _generate_csv_report: it writes the report when there
\* are no rows, too.
GenerateCsvReport_WritesEmpty(rows, old) ==
    [kind |-> "csv",
     rows |-> IF \E i \in 1..Len(rows) : HasScore(rows[i]) THEN SortValues(rows)
              ELSE rows]

\* A faulty variant of _generate_csv_report: it adds the rows to those of the
\* report file that exists.
GenerateCsvReport_Appends(rows, old) ==
    IF rows = <<>> THEN old
    ELSE [kind |-> "csv",
          rows |-> SortValues((IF old.kind = "csv" THEN old.rows ELSE <<>>) \o rows)]

\* _generate_csv_report: the report file it leaves (the rows; the order of
\* the columns is not modelled).
GenerateCsvReport(rows, old) ==
    IF rows = <<>> THEN old
    ELSE [kind |-> "csv",
          rows |-> IF \E i \in 1..Len(rows) : HasScore(rows[i]) THEN SortValues(rows)
                   ELSE rows]

\* os.listdir gives the files in any order.
Listings(store) ==
    LET present == {a \in Addresses : store[a].kind # "none"}
    IN  {f \in [1..Cardinality(present) -> present] :
            \A i, j \in 1..Cardinality(present) : f[i] = f[j] => i = j}

\* The module's start and run() up to the loop: choose the engine, list the
\* files, and return when there are none.
AnalystStart ==
    /\ stage = "idle"
    /\ runs < MaxRuns
    /\ runs' = runs + 1
    /\ \E env \in SUBSET API_KEYS, listing \in Listings(processed) :
        /\ files' = listing
        /\ keys' = IF listing = <<>> THEN {} ELSE env
        /\ ENGINE' = IF listing = <<>> THEN "MOCK" ELSE SelectEngine(env)
        /\ stage' = IF listing = <<>> THEN "idle" ELSE "analyst"
        /\ exit' = IF listing = <<>> THEN "returned" ELSE "running"
        /\ previous' = IF listing = <<>> THEN "analyst" ELSE previous
    /\ rendered' = "closed"
    /\ UNCHANGED <<engineFailed, registry, df, storeVars, idx, agent, sessions, fetched, attempts, rssTried, rssHadEntries,
                   refinerLocal, results, engineLog, engineCalls, answered>>

\* One iteration of the loop over files.
AnalyseFile ==
    /\ stage = "analyst"
    /\ exit = "running"
    /\ idx <= Len(files)
    /\ \E outs \in EngineEnvironments(processed[files[idx]], intelligence[files[idx]],
                                       files[idx], ENGINE) :
        LET address == files[idx]
            done == Analyse(processed[address], intelligence[address], address, ENGINE,
                            runs, outs)
        IN  /\ intelligence' = [intelligence EXCEPT ![address] = done.output]
            /\ results' = results \o done.append
            /\ engineLog' = IF done.called THEN engineLog \cup {address} ELSE engineLog
            /\ engineCalls' = engineCalls \cup done.by
            /\ answered' = done.answer
            /\ engineFailed' = IF done.called /\ done.error = "engine"
                               THEN [engineFailed EXCEPT ![address] = Len(outs)]
                               ELSE engineFailed
            /\ exit' = IF done.raised THEN "raised_row" ELSE exit
            /\ idx' = IF done.raised THEN idx ELSE idx + 1
    /\ UNCHANGED <<rendered, registry, df, processed, report, stage, runs, agent, sessions, fetched, attempts, history,
                   refinerLocal, files, ENGINE, keys>>

\* The end of run(): _generate_csv_report(results); or the end of the process
\* when an exception left the loop.
AnalystFinish ==
    /\ stage = "analyst"
    /\ (idx > Len(files) \/ exit = "raised_row")
    /\ report' = IF exit = "raised_row" THEN report ELSE GenerateCsvReport(results, report)
    /\ stage' = "idle"
    /\ exit' = IF exit = "raised_row" THEN exit ELSE "returned"
    /\ previous' = IF exit = "raised_row" THEN "none" ELSE "analyst"
    /\ files' = <<>>
    /\ results' = <<>>
    /\ ENGINE' = "MOCK"
    /\ engineLog' = {}
    /\ keys' = {}
    /\ engineCalls' = {}
    /\ answered' = {}
    /\ idx' = 1
    /\ UNCHANGED <<rendered, engineFailed, registry, df, processed, intelligence, runs, agent, sessions, fetched, attempts, rssTried,
                   rssHadEntries, refinerLocal>>

\* The Analyst process is killed in the iteration of file idx.  When that
\* iteration has reached the write of the record (lines 152-153), the file may
\* be left cut short.
KillAnalyst ==
    /\ stage = "analyst"
    /\ exit = "running"
    /\ idx <= Len(files)
    /\ LET address == files[idx]
           writes == \E outs \in EngineRuns :
                         Analyse(processed[address], intelligence[address], address, ENGINE,
                                 runs, outs).output # intelligence[address]
       IN  \E reached \in {writes} :
           \E left \in IF reached THEN {NoFile, PartialFile, TornFile} ELSE {NoFile} :
               intelligence' = IF left = NoFile THEN intelligence
                               ELSE [intelligence EXCEPT ![address] = left]
    /\ stage' = "idle"
    /\ exit' = "killed"
    /\ files' = <<>>
    /\ results' = <<>>
    /\ ENGINE' = "MOCK"
    /\ engineLog' = {}
    /\ keys' = {}
    /\ engineCalls' = {}
    /\ answered' = {}
    /\ idx' = 1
    /\ previous' = "none"
    /\ UNCHANGED <<rendered, engineFailed, registry, df, processed, report, runs, agent, sessions, fetched, attempts, rssTried,
                   rssHadEntries, refinerLocal>>

(***************************************************************************)
(* The pipeline: the stages run one at a time, in any order, each to its   *)
(* end.                                                                    *)
(***************************************************************************)
(***************************************************************************)
(* The viewer (dashboard.py).                                              *)
(***************************************************************************)
\* load_data: the rows of the report file when it exists, else an empty frame.
LoadData(file) == IF file.kind # "none" THEN file.rows ELSE <<>>

\* The page the script renders from the frame: the feed, the notice that
\* there is no data, or the traceback of the KeyError that df['impact_score']
\* raises when no row of the frame has a score.
Dashboard(rows) ==
    IF rows = <<>> THEN "info"
    ELSE IF \A i \in 1..Len(rows) : ~HasScore(rows[i]) THEN "error"
    ELSE "feed"

\* The dashboard is opened between two runs.
ViewDashboard ==
    /\ stage = "idle"
    /\ rendered' = Dashboard(LoadData(report))
    /\ UNCHANGED <<registry, df, storeVars, stage, idx, exit, runs, agent, sessions, fetched,
                   attempts, history, refinerLocal, analystLocal, engineFailed>>

Init ==
    /\ registry \in Registries
    /\ df = <<>>
    /\ processed = [a \in Addresses |-> NoFile]
    /\ intelligence = [a \in Addresses |-> NoFile]
    /\ report = NoFile
    /\ stage = "idle"
    /\ idx = 1
    /\ exit = "returned"
    /\ runs = 0
    /\ agent = NoAgent
    /\ sessions = NoSessions
    /\ files = <<>>
    /\ results = <<>>
    /\ ENGINE = "MOCK"
    /\ keys = {}
    /\ engineCalls = {}
    /\ answered = {}
    /\ rendered = "closed"
    /\ engineFailed = [a \in Addresses |-> 0]
    /\ fetched = {}
    /\ attempts = NoAttempts
    /\ rssTried = {}
    /\ rssHadEntries = {}
    /\ selected = {}
    /\ fetchLog = NoFetches
    /\ transportErrors = {}
    /\ engineLog = {}
    /\ previous = "none"

Next ==
    \/ HarvesterStart
    \/ HarvestRow
    \/ HarvesterFinish
    \/ RefinerStart
    \/ RefineRow
    \/ RefinerFinish
    \/ AnalystStart
    \/ AnalyseFile
    \/ AnalystFinish
    \/ KillRefiner
    \/ KillAnalyst
    \/ ViewDashboard

Spec == Init /\ [][Next]_vars

(***************************************************************************)
(* The report builder on its own: the Analyst at the end of its loop over  *)
(* up to MaxRecords documents, every one of them classified in an earlier  *)
(* run, with the records in results in the order of the listing and their  *)
(* scores in every order.                                                  *)
(***************************************************************************)
MaxRecords == 4

ReportScores == {0, 3, 7, 9}

\* A score below zero stands for an answer that lacks the impact_score field.
ScoreChoices == ReportScores \cup {-1}

DocUrl(k) == UrlPage \o "/" \o ToString(k)

ReportDocument(k) == RawDocument(SourceName(k), DocUrl(k), 2, Stripped[TextClean])

ReportRecord(k, score) ==
    FullReport(ReportDocument(k), IF score < 0 THEN PartialAnswer ELSE EngineAnswer(score),
               3, "GEMINI")

InitReport ==
    \E n \in 1..MaxRecords : \E scores \in [1..n -> ScoreChoices] :
        LET docs == {GetUrlHash(DocUrl(k)) : k \in 1..n}
            rowOf(a) == CHOOSE k \in 1..n : GetUrlHash(DocUrl(k)) = a
        IN  /\ registry = [k \in 1..n |->
                              [name |-> SourceName(k), url |-> DocUrl(k), strategy |-> "rss",
                               notes |-> NotesCell(1, "Success",
                                             "RSS OK: " \o Take(TitleText, TITLE_CHARS) \o "...")]]
            /\ processed = [a \in docs |-> JsonFile(ReportDocument(rowOf(a)))]
            /\ intelligence = [a \in docs |-> JsonFile(ReportRecord(rowOf(a), scores[rowOf(a)]))]
            /\ files = [k \in 1..n |-> GetUrlHash(DocUrl(k))]
            /\ results = [k \in 1..n |-> ReportRecord(k, scores[k])]
            /\ idx = n + 1
            /\ fetched = {}
            /\ attempts = NoAttempts
            /\ rssTried = 1..n
            /\ rssHadEntries = 1..n
    /\ df = <<>>
    /\ report = NoFile
    /\ stage = "analyst"
    /\ exit = "running"
    /\ runs = 4
    /\ agent = NoAgent
    /\ sessions = NoSessions
    /\ ENGINE = "GEMINI"
    /\ keys = {"GEMINI_API_KEY"}
    /\ engineCalls = {}
    /\ answered = {}
    /\ rendered = "closed"
    /\ engineFailed = [a \in Addresses |-> 0]
    /\ selected = {}
    /\ fetchLog = NoFetches
    /\ transportErrors = {}
    /\ engineLog = {}
    /\ previous = "analyst"

SpecReport == InitReport /\ [][AnalystFinish]_vars

(***************************************************************************)
(* Properties.                                                             *)
(***************************************************************************)
\* The files of a store, and the text of a complete RawDocument.
FilesOf(store) == {a \in DOMAIN store : store[a].kind # "none"}

ContentOf(file) == file.data.content_clean

\* C1 (as amended): a Refiner run attempts a download only for a URL that has
\* no file at its content address in the Content Store; the URLs a run
\* handled that are left without a file (failed download, text under the
\* minimum length) are fetched again by the next run, so a second run over an
\* unchanged registry can add RawDocuments.
C1_FetchOnlyWithoutFile ==
    [][\A u \in Urls :
          fetchLog'[u] > fetchLog[u] => ValidUrl[u] /\ processed[UrlHash[u]].kind = "none"]_vars

\* A second Refiner run over the unchanged registry has passed a selected row
\* whose RawDocument exists, without a download.
C1_SecondRunSkipsStored ==
    /\ stage = "refiner"
    /\ previous = "refiner"
    /\ \E i \in selected :
        /\ i < idx
        /\ ValidUrl[df[i].url]
        /\ processed[UrlHash[df[i].url]].kind = "json"
        /\ fetchLog[df[i].url] = 0

\* C1 (as stated): a Refiner run that follows a Refiner run, the registry
\* unchanged, makes no download attempt and leaves the set of RawDocuments as
\* it was.
C1_SecondRunFetchesNothing ==
    [][stage = "refiner" /\ previous = "refiner" =>
          /\ \A u \in Urls : fetchLog'[u] = 0
          /\ FilesOf(processed') = FilesOf(processed)]_vars

\* C2 (as amended): the Analyst calls the engine only for a content address
\* that has no record file, and an existing record that can be read is
\* appended to the rows of the report as it is; a document left without a
\* record (the engine failed) is submitted again by the next run, so a second
\* run over an unchanged Content Store can add ClassificationRecords.
C2_EngineOnlyWithoutRecord ==
    [][stage = "analyst" /\ stage' = "analyst" =>
          /\ \A a \in engineLog' \ engineLog : intelligence[a].kind = "none"
          /\ (idx' = idx + 1 /\ intelligence[files[idx]].kind = "json"
                => results' = Append(results, intelligence[files[idx]].data))]_vars

\* A second Analyst run has passed a document whose record an earlier run
\* wrote: the engine was not called and the record is in results.
C2_SecondRunReusesRecord ==
    /\ stage = "analyst"
    /\ previous = "analyst"
    /\ \E i \in 1..(idx - 1) :
        /\ intelligence[files[i]].kind = "json"
        /\ files[i] \notin engineLog
        /\ intelligence[files[i]].data.analyzed_at # Timestamp(runs)
        /\ \E k \in 1..Len(results) : results[k] = intelligence[files[i]].data

\* C2 (as stated): an Analyst run that follows an Analyst run, the Content
\* Store unchanged, leaves the set of ClassificationRecords as it was, calls
\* the engine for no address that has a record, and reuses each record.
C2_SecondRunChangesNothing ==
    [][stage = "analyst" /\ stage' = "analyst" /\ previous = "analyst" =>
          /\ FilesOf(intelligence') = FilesOf(intelligence)
          /\ \A a \in engineLog' \ engineLog : intelligence[a].kind = "none"
          /\ (idx' = idx + 1 /\ intelligence[files[idx]].kind # "none"
                => Len(results') = Len(results) + 1)]_vars

\* C3 (as stated): the selection test matches whole words: a row whose note
\* holds "Scrape OK" is selected, and a row whose note holds "not success", in
\* any case, is not.
C3_WholeWordMatch ==
    stage = "refiner" =>
        \A i \in 1..(idx - 1) :
            /\ Contains("scrape ok", Lower(Str(df[i].notes))) => i \in selected
            /\ Contains("not success", Lower(Str(df[i].notes))) => i \notin selected

\* The texts a RawDocument can hold that contain a blocklisted phrase in some
\* case.
BlockPages ==
    {t \in StoredTexts : \E phrase \in BLOCK_PHRASES : Contains(phrase, Lower(t))}

\* C4: a RawDocument whose text contains a blocklisted phrase, in any case
\* and whatever its length, is not passed to the engine and has no file in
\* the Classification Store.
C4_BlockedNeverAnalysed ==
    \A a \in Addresses :
        processed[a].kind = "json" /\ ContentOf(processed[a]) \in BlockPages
            => intelligence[a].kind = "none" /\ a \notin engineLog

\* An Analyst run with an API engine has passed a block page that is long
\* enough for the length filter.
C4_BlockPagePassed ==
    /\ stage = "analyst"
    /\ ENGINE # "MOCK"
    /\ \E i \in 1..(idx - 1) :
        /\ processed[files[i]].kind = "json"
        /\ ContentOf(processed[files[i]]) \in BlockPages
        /\ Len(ContentOf(processed[files[i]])) >= MIN_ANALYSIS_CONTENT
        /\ intelligence[files[i]].kind = "none"

\* Whether a row carries an impact score, and the rows of a report in order:
\* the rows with a score by score descending, ahead of the rows without one.
Scored(r) == "impact_score" \in DOMAIN r

SortedDescending(rows) ==
    \A i, j \in 1..Len(rows) :
        i < j => /\ Scored(rows[j]) => Scored(rows[i])
                 /\ Scored(rows[i]) /\ Scored(rows[j])
                        => rows[i].impact_score >= rows[j].impact_score

Occurrences(rows, r) == Cardinality({i \in 1..Len(rows) : rows[i] = r})

IsPermutation(a, b) ==
    /\ Len(a) = Len(b)
    /\ \A i \in 1..Len(a) : Occurrences(a, a[i]) = Occurrences(b, a[i])

\* C5: the report an Analyst run writes holds the records of results, each
\* once, ordered by impact score, highest first (a record without the field
\* has no score to compare and comes last).
C5_ReportSortedDescending ==
    [][stage = "analyst" /\ stage' = "idle" /\ exit' = "returned" =>
          /\ report'.kind = "csv"
          /\ SortedDescending(report'.rows)
          /\ IsPermutation(report'.rows, results)]_vars

\* The records with scores 3, 9, 0, 7, in that order of listing, are in the
\* report as 9, 7, 3, 0.
C5_ExampleReport ==
    /\ report.kind = "csv"
    /\ Len(report.rows) = 4
    /\ \A i \in 1..4 : Scored(report.rows[i])
    /\ [i \in 1..4 |-> report.rows[i].impact_score] = <<9, 7, 3, 0>>
    /\ [i \in 1..4 |-> report.rows[i].source]
           = <<SourceName(2), SourceName(4), SourceName(1), SourceName(3)>>

\* The rss rows none of whose fetch attempts, in any run, found an entry.
EmptyFeedRows == rssTried \ rssHadEntries

HarvesterFailed(notes) == Contains("] Failed - ", Str(notes))

\* C6 (as amended): the Harvester records a row whose feed never has an entry
\* as Failed, no Refiner run selects that row, and a RawDocument for its URL,
\* if there is one, comes from another row that lists the same URL.
C6_EmptyFeedRowNeverSelected ==
    \A i \in EmptyFeedRows :
        /\ stage = "harvester" /\ i < idx => HarvesterFailed(df[i].notes)
        /\ stage = "refiner" => i \notin selected
        /\ \A a \in Addresses :
              processed[a].kind = "json" /\ processed[a].data.url = registry[i].url
                  => processed[a].data.source # registry[i].name

\* A Refiner run has passed, unselected, a row whose feed never had an entry,
\* and the Content Store holds a RawDocument for that row's URL.
C6_SharedUrlDocument ==
    /\ stage = "refiner"
    /\ \E i \in EmptyFeedRows :
        /\ i < idx
        /\ i \notin selected
        /\ HarvesterFailed(df[i].notes)
        /\ processed[UrlHash[df[i].url]].kind = "json"

\* C6 (as stated): the Harvester records a row whose feed never has an entry
\* as Failed, and the Content Store never holds a RawDocument for that row's
\* URL.
C6_NoDocumentForUrl ==
    \A i \in EmptyFeedRows :
        /\ stage = "harvester" /\ i < idx => HarvesterFailed(df[i].notes)
        /\ ValidUrl[registry[i].url] => processed[UrlHash[registry[i].url]].kind = "none"

\* C7: a RawDocument whose text is under the Analyst's minimum length is not
\* passed to the engine and has no file in the Classification Store.
C7_ShortNeverAnalysed ==
    \A a \in Addresses :
        processed[a].kind = "json" /\ Len(ContentOf(processed[a])) < MIN_ANALYSIS_CONTENT
            => intelligence[a].kind = "none" /\ a \notin engineLog

\* An Analyst run with an API engine has passed a RawDocument that is under
\* the minimum length and holds no blocklisted phrase.
C7_ShortDocumentPassed ==
    /\ stage = "analyst"
    /\ ENGINE # "MOCK"
    /\ \E i \in 1..(idx - 1) :
        /\ processed[files[i]].kind = "json"
        /\ Len(ContentOf(processed[files[i]])) < MIN_ANALYSIS_CONTENT
        /\ ContentOf(processed[files[i]]) \notin BlockPages
        /\ intelligence[files[i]].kind = "none"

\* C8: a file of the Content Store, once written, is not written again and is
\* not removed by a step of any stage, and a RawDocument lies at the content
\* address of its own URL, so that there is one per URL at most.
C8_RawDocumentWrittenOnce ==
    [][\A a \in Addresses :
          /\ processed[a].kind # "none" => processed'[a] = processed[a]
          /\ processed'[a].kind = "json" => UrlHash[processed'[a].data.url] = a]_vars

\* A Refiner run has selected two rows that list the same URL: the first was
\* downloaded, the second found the file.
C8_SharedUrlOneDocument ==
    /\ stage = "refiner"
    /\ Len(df) >= 2
    /\ idx > 2
    /\ df[1].url = df[2].url
    /\ {1, 2} \subseteq selected
    /\ processed[UrlHash[df[1].url]].kind = "json"
    /\ processed[UrlHash[df[1].url]].data.source = df[1].name
    /\ fetchLog[df[1].url] = 1

\* C9: a file of the Classification Store, once written, is not written again
\* and is not removed, and a ClassificationRecord lies at the content address
\* of its document's URL, so that there is one per address at most.
C9_RecordWrittenOnce ==
    [][\A a \in Addresses :
          /\ intelligence[a].kind # "none" => intelligence'[a] = intelligence[a]
          /\ intelligence'[a].kind = "json" => UrlHash[intelligence'[a].data.url] = a]_vars

\* An Analyst run has passed a record that an earlier run wrote with another
\* engine.
C9_OlderRecordPassed ==
    /\ stage = "analyst"
    /\ \E i \in 1..(idx - 1) :
        /\ intelligence[files[i]].kind = "json"
        /\ intelligence[files[i]].data.analyzed_at # Timestamp(runs)
        /\ intelligence[files[i]].data.engine # ENGINE

\* C10 (as stated): no exception raised for one row or one document leaves
\* the loop of a stage, so every run passes all of its rows or documents and
\* the Analyst reaches the report.
C10_NoItemErrorAbortsBatch == exit # "raised_row"

\* C11 (as stated): the step that ends a Harvester run leaves the registry file
\* equal to the run's DataFrame, with every note the run wrote, whether the
\* row loop ended or an exception left it and whether or not closing the
\* browser succeeds.
C11_RunEndsWithCheckpoint ==
    [][stage = "harvester" /\ stage' = "idle" => registry' = df]_vars

\* C12 (as stated): when no Harvester run is in progress, whether the last one
\* returned or raised (during the start of the browser, in the loop or in the
\* teardown), neither the browser nor its driver is left open.
C12_NoSessionAfterRun ==
    stage # "harvester" => ~sessions.chromium /\ ~sessions.driver

\* C13: the engine of an Analyst process is the one its API keys select (Gemini
\* when its key is present, else OpenAI when its key is present, else Mock);
\* it stays the same through the run, every analysis function the run calls
\* is that engine's, also after a failed call, and every record the run
\* writes carries that engine's name and that engine's answer.
C13_OneEnginePerProcess ==
    [][stage = "analyst" /\ stage' = "analyst" =>
          /\ ENGINE = (IF "GEMINI_API_KEY" \in keys THEN "GEMINI"
                       ELSE IF "OPENAI_API_KEY" \in keys THEN "OPENAI" ELSE "MOCK")
          /\ ENGINE' = ENGINE
          /\ engineCalls' \subseteq {ENGINE}
          /\ \A a \in Addresses :
                intelligence'[a] # intelligence[a] /\ intelligence'[a].kind = "json"
                    => /\ intelligence'[a].data.engine = ENGINE
                       /\ (intelligence'[a].data.summary = MockAnalysis(runs).summary)
                              <=> (ENGINE = "MOCK")]_vars

\* An Analyst run with both API keys present uses Gemini: one of its calls
\* failed on every attempt and left no record, another wrote a record.
C13_FailedCallNoFallback ==
    /\ stage = "analyst"
    /\ keys = API_KEYS
    /\ ENGINE = "GEMINI"
    /\ engineCalls = {"GEMINI"}
    /\ \E a \in engineLog : intelligence[a].kind = "none"
    /\ \E b \in engineLog :
        /\ intelligence[b].kind = "json"
        /\ intelligence[b].data.engine = "GEMINI"
        /\ intelligence[b].data.analyzed_at = Timestamp(runs)

\* The ClassificationRecords of the Classification Store.
RecordsOf(store) == {a \in DOMAIN store : store[a].kind = "json"}

\* C14: the report an Analyst run writes holds one row for every
\* ClassificationRecord of the Classification Store, those of earlier runs
\* and those of this run, and no other row.
C14_ReportHoldsEveryRecord ==
    [][stage = "analyst" /\ stage' = "idle" /\ exit' = "returned" /\ results # <<>> =>
          /\ report'.kind = "csv"
          /\ Len(report'.rows) = Cardinality(RecordsOf(intelligence'))
          /\ \A a \in RecordsOf(intelligence') :
                Occurrences(report'.rows, intelligence'[a].data) = 1]_vars

\* An Analyst run has returned and its report holds a record it wrote and a
\* record of an earlier run.
C14_ReportOfOldAndNewRecords ==
    /\ stage = "idle"
    /\ exit = "returned"
    /\ previous = "analyst"
    /\ report.kind = "csv"
    /\ Len(report.rows) = 2
    /\ \E i, j \in 1..2 :
        /\ report.rows[i].analyzed_at = Timestamp(runs)
        /\ report.rows[j].analyzed_at # Timestamp(runs)

\* C15: the registry file changes only in a step of a Harvester run, the
\* Content Store only in a step of a Refiner run, the Classification Store
\* and the report only in a step of an Analyst run; so a Refiner run leaves
\* every row of the registry, and an Analyst run the registry and every
\* RawDocument, as they were.
C15_OnlyOwnerWrites ==
    [][/\ registry' # registry => stage = "harvester"
       /\ processed' # processed => stage = "refiner"
       /\ intelligence' # intelligence \/ report' # report => stage = "analyst"]_vars

\* An Analyst run has written the record of a RawDocument that a Refiner run
\* stored for a row the Harvester marked as a success.
C15_EachStageWrote ==
    /\ stage = "analyst"
    /\ \E a \in Addresses :
        /\ intelligence[a].kind = "json"
        /\ intelligence[a].data.analyzed_at = Timestamp(runs)
        /\ processed[a].kind = "json"
        /\ processed[a].data.downloaded_at # Timestamp(runs)
        /\ \E i \in 1..Len(registry) :
            /\ registry[i].url = processed[a].data.url
            /\ Contains("] Success - ", Str(registry[i].notes))

\* C16 (as stated): when a download attempt for a URL fails with a transport
\* error, the Refiner makes another attempt for that URL, two in all, before
\* it gives up; it makes no more than two attempts.
C16_TransportErrorRetried ==
    [][\A u \in Urls :
          /\ u \in transportErrors' \ transportErrors
                => fetchLog'[u] = fetchLog[u] + DOWNLOAD_ATTEMPTS
          /\ fetchLog'[u] <= fetchLog[u] + DOWNLOAD_ATTEMPTS]_vars

\* The strategy of a row as its cell names it (the cell is free text, such
\* as "Web Scrape"; the keyword is looked for in any case).
NamesStrategy(cell, word) == Contains(word, Lower(Str(cell)))

IsApiRow(row) ==
    /\ NamesStrategy(row.strategy, "api")
    /\ ~NamesStrategy(row.strategy, "rss")
    /\ ~NamesStrategy(row.strategy, "scrape")

IsUnknownRow(row) == \A word \in {"rss", "scrape", "api"} : ~NamesStrategy(row.strategy, word)

\* C17 (as amended): in a Harvester run no fetch is attempted for a row whose
\* strategy is api or is not recognized, or whose target URL is empty; of the
\* rows with a target URL, every api row is recorded as skipped with its note
\* and every row of an unrecognized strategy with the unknown-strategy
\* outcome; a row without a target URL is passed over and keeps its note.
C17_OnlyFeedAndPageRowsFetched ==
    stage = "harvester" =>
        /\ \A i \in fetched :
              /\ df[i].url # EmptyCell
              /\ NamesStrategy(df[i].strategy, "rss") \/ NamesStrategy(df[i].strategy, "scrape")
        /\ \A i \in 1..(idx - 1) :
              IF df[i].url = EmptyCell THEN df[i].notes = registry[i].notes
              ELSE /\ IsApiRow(df[i]) =>
                        df[i].notes = NotesCell(runs, "Skipped", "API connector not built yet.")
                   /\ IsUnknownRow(df[i]) =>
                        Contains("] Unknown Strategy - Strategy '", Str(df[i].notes))

\* A Harvester run has passed an api row and a row of an unrecognized
\* strategy, both with a target URL, and a row without one, and has made no
\* fetch attempt.
C17_ApiAndUnknownRowsPassed ==
    /\ stage = "harvester"
    /\ fetched = {}
    /\ \E i, j, k \in 1..(idx - 1) :
        /\ IsApiRow(df[i]) /\ df[i].url # EmptyCell
        /\ Contains("] Skipped - ", Str(df[i].notes))
        /\ IsUnknownRow(df[j]) /\ df[j].url # EmptyCell
        /\ Contains("] Unknown Strategy - ", Str(df[j].notes))
        /\ df[k].url = EmptyCell

\* C17 (as stated): in a Harvester run every api row the loop has passed is
\* recorded as skipped, every row of an unrecognized strategy with the
\* unknown-strategy outcome, and a fetch is attempted for rss and scrape rows
\* only.
C17_EveryApiRowSkipped ==
    stage = "harvester" =>
        /\ \A i \in fetched :
              NamesStrategy(df[i].strategy, "rss") \/ NamesStrategy(df[i].strategy, "scrape")
        /\ \A i \in 1..(idx - 1) :
              /\ IsApiRow(df[i]) => Contains("] Skipped - ", Str(df[i].notes))
              /\ IsUnknownRow(df[i]) => Contains("] Unknown Strategy - ", Str(df[i].notes))

\* The impact scores the output contract of the engines allows.
ContractScores == 0..10

\* C18 (as amended): a record of the Mock engine has the impact score 5; a
\* record of an API engine holds the fields of the engine's answer as they
\* were returned, so its impact score is the one the engine gave, in 0..10
\* when the engine kept to the contract, and absent when the answer had none.
C18_ScoreAsReturned ==
    [][\A a \in Addresses :
          intelligence'[a] # intelligence[a] /\ intelligence'[a].kind = "json" =>
              LET record == intelligence'[a].data
              IN  IF ENGINE = "MOCK"
                  THEN "impact_score" \in DOMAIN record /\ record.impact_score = 5
                  ELSE \E r \in EngineResponses :
                          /\ \A k \in DOMAIN r : k \in DOMAIN record /\ record[k] = r[k]
                          /\ "impact_score" \in DOMAIN record => "impact_score" \in DOMAIN r
                          /\ ("impact_score" \in DOMAIN r /\ r.impact_score \in ContractScores)
                                => record.impact_score \in ContractScores]_vars

\* The Classification Store holds a record with an impact score of 11 and a
\* record without an impact score, both written from answers of an API
\* engine.
C18_ScoreOutsideContract ==
    \E a, b \in Addresses :
        /\ intelligence[a].kind = "json"
        /\ intelligence[a].data.engine # "MOCK"
        /\ "impact_score" \in DOMAIN intelligence[a].data
        /\ intelligence[a].data.impact_score = 11
        /\ intelligence[b].kind = "json"
        /\ "impact_score" \notin DOMAIN intelligence[b].data

\* C18 (as stated): every ClassificationRecord of the Classification Store
\* has an impact score, an integer from 0 to 10.
C18_ScoreInRange ==
    \A a \in Addresses :
        intelligence[a].kind = "json" =>
            /\ "impact_score" \in DOMAIN intelligence[a].data
            /\ intelligence[a].data.impact_score \in ContractScores

\* The rows whose note the running Harvester run has written in memory and
\* the registry file does not hold yet.
Unsaved == {i \in 1..Len(df) : df[i].notes # registry[i].notes}

\* C19 (as stated): at every point of a Harvester run, at most
\* CHECKPOINT_EVERY rows carry a note that was written in memory and is not
\* yet in the registry file, in every registry, also one with rows that have
\* no target URL.
C19_UnsavedRowsBounded ==
    stage = "harvester" => Cardinality(Unsaved) <= CHECKPOINT_EVERY

\* C20 (as stated): whenever a Refiner or an Analyst process has been killed,
\* every file of the Content Store and of the Classification Store is absent
\* or a complete document, so that no later run finds a file cut short at a
\* content address.
C20_FilesAbsentOrComplete ==
    \A a \in Addresses :
        /\ processed[a].kind \in {"none", "json"}
        /\ intelligence[a].kind \in {"none", "json"}

\* The row the Harvester's loop dispatched last, once its note is written.
RowDispatched == stage = "harvester" /\ exit = "running" /\ idx > 1

LastOf(outs) == outs[Len(outs)]

ErrorStatus(feed) == "status" \in DOMAIN feed /\ feed.status >= HTTP_ERROR

\* C21 (as amended): an rss fetch fails exactly when the feed yields zero
\* entries, and the row is recorded as failed after the second such attempt;
\* a feed with entries succeeds whatever HTTP status the transport reports,
\* and the row is recorded with the newest entry's title.  An rss or scrape
\* dispatch is attempted at most 2 times, a further attempt follows a failed
\* one only, and a row is recorded as failed only after the last attempt.
C21_FeedWithEntriesSucceeds ==
    RowDispatched =>
        LET feeds == attempts.feeds
            pages == attempts.pages
            notes == df[idx - 1].notes
        IN  /\ Len(feeds) <= RSS_ATTEMPTS
            /\ pages <= SCRAPE_ATTEMPTS
            /\ feeds # <<>> =>
                  /\ \A k \in 1..(Len(feeds) - 1) : feeds[k].entries = <<>>
                  /\ IF LastOf(feeds).entries = <<>>
                     THEN HarvesterFailed(notes) /\ Len(feeds) = RSS_ATTEMPTS
                     ELSE notes = NotesCell(runs, "Success",
                                     "RSS OK: " \o Take(LastOf(feeds).entries[1], TITLE_CHARS)
                                         \o "...")
            /\ pages > 0 =>
                  IF HarvesterFailed(notes) THEN pages = SCRAPE_ATTEMPTS
                  ELSE Contains("] Success - Scrape OK: ", notes)

\* The Harvester has recorded an rss row as a success on a feed that came
\* with entries and the HTTP status 404, after a first attempt without entries.
C21_EntriesWithErrorStatus ==
    /\ RowDispatched
    /\ Len(attempts.feeds) = RSS_ATTEMPTS
    /\ LastOf(attempts.feeds).entries # <<>>
    /\ ErrorStatus(LastOf(attempts.feeds))
    /\ Contains("] Success - RSS OK: ", df[idx - 1].notes)

\* C21 (as stated): the row of an rss fetch is recorded as failed whenever the
\* feed yields zero entries or the transport reports a status of 400 or
\* above, and as a success only otherwise.
C21_ErrorStatusFails ==
    (RowDispatched /\ attempts.feeds # <<>>) =>
        LET last == LastOf(attempts.feeds)
        IN  /\ Len(attempts.feeds) <= RSS_ATTEMPTS
            /\ HarvesterFailed(df[idx - 1].notes)
                  <=> (last.entries = <<>> \/ ErrorStatus(last))

\* An engine answer that lacks a required field.
LacksRequired(r) == ~(REQUIRED_KEYS \subseteq DOMAIN r)

\* C22: when the engine answers without one of the required fields, the
\* Analyst still writes the ClassificationRecord of the document (the answer's
\* fields over the raw fields, the engine name and the time of the analysis),
\* appends it to its results and goes on to the next document; the report
\* the run writes at its end holds every such record.
C22_PartialAnswerPersisted ==
    [][/\ (stage' = "analyst" /\ \E r \in answered' : LacksRequired(r)) =>
            \E r \in answered' : \E a \in {files[idx]} :
            \E raw \in {processed[a].data} :
                /\ intelligence'[a].kind = "json"
                /\ \E rec \in {intelligence'[a].data} :
                    /\ DOMAIN rec = DOMAIN raw \cup DOMAIN r \cup {"analyzed_at", "engine"}
                    /\ \A k \in DOMAIN r : rec[k] = r[k]
                    /\ \A k \in DOMAIN raw \ DOMAIN r : rec[k] = raw[k]
                    /\ rec.engine = ENGINE
                    /\ rec.analyzed_at = Timestamp(runs)
                    /\ results' = Append(results, rec)
                /\ processed' = processed
                /\ exit' = "running"
                /\ idx' = idx + 1
       /\ (stage = "analyst" /\ stage' = "idle" /\ exit' = "returned") =>
            \A i \in 1..Len(results) :
                LacksRequired(results[i]) =>
                    report'.kind = "csv" /\ Occurrences(report'.rows, results[i]) = 1]_vars

\* An Analyst run has written the record of an answer without an impact score
\* and then the record of a second document.
C22_PartialThenNext ==
    /\ stage = "analyst"
    /\ exit = "running"
    /\ idx = 3
    /\ Len(results) = 2
    /\ LacksRequired(results[1])
    /\ results[1].analyzed_at = Timestamp(runs)
    /\ intelligence[files[1]] = JsonFile(results[1])
    /\ results[2].analyzed_at = Timestamp(runs)
    /\ \E r \in answered : ~LacksRequired(r)

\* C23: an Analyst run that ends with no ClassificationRecord in memory (it
\* found no RawDocument, or every document was filtered out or failed)
\* leaves the report as it was, absent when it was absent; and the dashboard,
\* opened while the report is absent, shows the notice that there is nothing
\* to show, and no error.
C23_NoRecordsNoReport ==
    [][/\ (stage = "idle" /\ stage' = "idle" /\ runs' # runs /\ previous' = "analyst")
            => report' = report
       /\ (stage = "analyst" /\ stage' = "idle" /\ results = <<>>) => report' = report
       /\ (rendered' # rendered /\ rendered' # "closed" /\ report.kind = "none")
            => rendered' = "info"]_vars

\* An Analyst run that went through a RawDocument has returned without a
\* record and without a report, and the dashboard opened after it shows the
\* notice.
C23_NothingToShow ==
    /\ stage = "idle"
    /\ exit = "returned"
    /\ previous = "analyst"
    /\ FilesOf(processed) # {}
    /\ RecordsOf(intelligence) = {}
    /\ report = NoFile
    /\ rendered = "info"

\* The outcome a Harvester run recorded in a Notes cell: the cell starts with
\* the run's timestamp and the status.
RecordedAs(notes, status) ==
    \E now \in 1..MaxRuns :
        LET head == "[" \o Timestamp(now) \o "] " \o status \o " - "
        IN  Take(Str(notes), Len(head)) = head

\* C24 (as stated): the Refiner selects a row whose note the Harvester wrote
\* only if the Harvester recorded a success for it; a row recorded as failed,
\* skipped or of an unknown strategy is never selected, whatever text or
\* strategy name the note holds.
C24_OnlySuccessRowsSelected ==
    stage = "refiner" =>
        \A i \in selected :
            df[i].notes \in WrittenNotes => RecordedAs(df[i].notes, "Success")

\* C25: when the engine call for a document fails on every attempt (3 at
\* most), the iteration writes no ClassificationRecord, leaves every
\* RawDocument as it was and goes on; an iteration of a later run that finds
\* the document still without a record file passes it to the engine again;
\* and the iteration in which the engine answers writes the document's record.
C25_FailedDocumentTriedAgain ==
    [][(stage = "analyst" /\ exit = "running" /\ idx <= Len(files) /\ stage' = "analyst") =>
          \E a \in {files[idx]} :
              /\ (a \in engineLog' \ engineLog /\ answered' = {}) =>
                    /\ engineFailed'[a] \in 1..ENGINE_ATTEMPTS
                    /\ intelligence' = intelligence
                    /\ processed' = processed
                    /\ results' = results
                    /\ exit' = "running"
                    /\ idx' = idx + 1
              /\ (engineFailed[a] > 0 /\ intelligence[a].kind = "none") =>
                    a \in engineLog' \ engineLog
              /\ (engineFailed[a] > 0 /\ answered' # {}) =>
                    /\ intelligence'[a].kind = "json"
                    /\ intelligence'[a].data.analyzed_at = Timestamp(runs)
                    /\ results' = Append(results, intelligence'[a].data)]_vars

\* The engine failed on all 3 attempts for a document in an earlier Analyst
\* run, and the running Analyst run has passed the document to the engine
\* again and written its record.
C25_RecordAfterFailedRun ==
    /\ stage = "analyst"
    /\ \E a \in engineLog :
        /\ engineFailed[a] = ENGINE_ATTEMPTS
        /\ processed[a].kind = "json"
        /\ intelligence[a].kind = "json"
        /\ intelligence[a].data.analyzed_at = Timestamp(runs)
        /\ intelligence[a].data.engine # "MOCK"

\* A record file that exists and cannot be read as JSON.
Unreadable(file) == file.kind \in {"partial", "torn"}

\* C26 (as stated): an iteration of an Analyst run that finds an unreadable
\* ClassificationRecord file does not call the engine for the address, leaves
\* the file as it is, adds nothing to the rows of the report, and goes on to
\* the rest of the batch.
C26_UnreadableRecordSkipped ==
    [][(/\ stage = "analyst" /\ exit = "running" /\ idx <= Len(files)
        /\ stage' = "analyst"
        /\ Unreadable(intelligence[files[idx]])) =>
            /\ engineLog' = engineLog
            /\ intelligence' = intelligence
            /\ results' = results
            /\ exit' = "running"
            /\ idx' = idx + 1]_vars

=============================================================================
